---- MODULE Spec2Model ----
(***************************************************************************)
(* Fork-context truncation pipeline of better-opencode-async-agents        *)
(* (src/fork/index.ts and src/constants.ts):                               *)
(*   stage 1  findCompactionBoundary   - slice at the latest compaction    *)
(*   stage 2  processMessagesForFork   - graduated tool-result truncation  *)
(*   stage 3  formatMessagesAsContext  - rendering and budget eviction     *)
(*                                                                         *)
(* Strings are modelled as run-length encoded character sequences (a       *)
(* sequence of runs [c, n], adjacent runs holding different characters),   *)
(* so that a 200 000 character text is a short value while length, slice,  *)
(* concatenation, equality and substring search stay exact.                *)
(***************************************************************************)
EXTENDS Integers, Sequences, FiniteSets, TLC

\* ---------------------------------------------------------------------------
\* Program constants (src/constants.ts)
\* ---------------------------------------------------------------------------
FORK_CHAR_BUDGET == 200000
FORK_CHAR_NO_REMOVAL == 120000
FORK_TIER1_COUNT == 5
FORK_TIER2_COUNT == 10
FORK_TIER2_LIMIT == 3000
FORK_TIER3_LIMIT == 500
FORK_PARAMS_TIER1 == 500
FORK_PARAMS_TIER2 == 200
FORK_PARAMS_TIER3 == 100
\* FORK_HEAD_RATIO = 0.8 and FORK_TAIL_RATIO = 0.2, kept as exact fractions
FORK_HEAD_RATIO == <<8, 10>>
FORK_TAIL_RATIO == <<2, 10>>
FORK_ERROR_PATTERNS ==
  <<"error", "Error", "ERROR", "failed", "FAILED", "exception", "traceback">>
FORK_HEAD_TAIL_KEYWORDS == <<"bash", "pty", "exec">>
FORK_NO_TRUNCATION_TOOLS == <<"ask_user_questions">>
MAX_SSE_SUBSCRIBERS == 50
COMPACTED_SENTINEL == "[Old tool result content cleared]"

\* ---------------------------------------------------------------------------
\* Bounds of the model
\* ---------------------------------------------------------------------------
MaxBoundaryMessages == 5
MaxToolMessages == 3
MaxBudgetMessages == 4
MaxFormatCalls == 2
MaxNameMessages == 3
MaxFrameMessages == 4
\* connections made to GET /v1/events
MaxConnections == 52
\* the connections 1..MaxWatched are the ones that fail, are cancelled and
\* whose heartbeat is observed; the others stay connected
MaxWatched == 2
\* tasks the manager launches
MaxTasks == 2
\* calls of saveTask / deletePersistedTask in flight together
MaxWriters == 2
\* session IDs in the tasks file
MaxSessions == 2
\* calls of setTaskStatus on the task
MaxStatusCalls == 3

\* ---------------------------------------------------------------------------
\* Strings: run-length encoded texts
\* ---------------------------------------------------------------------------
Min(a, b) == IF a < b THEN a ELSE b
Max(a, b) == IF a > b THEN a ELSE b

\* n copies of the character c ("x".repeat(n))
Rep(c, n) == IF n <= 0 THEN <<>> ELSE <<[c |-> c, n |-> n]>>

\* string concatenation a + b
TCat(a, b) ==
  IF a = <<>> THEN b
  ELSE IF b = <<>> THEN a
  ELSE IF a[Len(a)].c = b[1].c
       THEN SubSeq(a, 1, Len(a) - 1)
              \o <<[c |-> b[1].c, n |-> a[Len(a)].n + b[1].n]>>
              \o Tail(b)
       ELSE a \o b

RECURSIVE StrFrom(_, _)
StrFrom(s, i) ==
  IF i > Len(s) THEN <<>>
  ELSE TCat(Rep(SubSeq(s, i, i), 1), StrFrom(s, i + 1))

\* the text of a string literal
Str(s) == StrFrom(s, 1)

RECURSIVE TLen(_)
\* text.length
TLen(t) ==
  IF t = <<>> THEN 0
  ELSE IF Len(t) = 1 THEN t[1].n
  ELSE LET h == Len(t) \div 2
       IN  TLen(SubSeq(t, 1, h)) + TLen(SubSeq(t, h + 1, Len(t)))

RECURSIVE TTake(_, _)
TTake(t, k) ==
  IF k <= 0 \/ t = <<>> THEN <<>>
  ELSE IF t[1].n <= k THEN <<t[1]>> \o TTake(Tail(t), k - t[1].n)
  ELSE <<[c |-> t[1].c, n |-> k]>>

RECURSIVE TDrop(_, _)
TDrop(t, k) ==
  IF t = <<>> THEN <<>>
  ELSE IF k <= 0 THEN t
  ELSE IF t[1].n <= k THEN TDrop(Tail(t), k - t[1].n)
  ELSE <<[c |-> t[1].c, n |-> t[1].n - k]>> \o Tail(t)

\* String.prototype.slice index normalisation
SliceIndex(len, i) == IF i < 0 THEN Max(len + i, 0) ELSE Min(i, len)

\* text.slice(start, end)
Slice(t, start, end) ==
  LET from == SliceIndex(TLen(t), start)
      to   == SliceIndex(TLen(t), end)
  IN  TTake(TDrop(t, from), Max(to - from, 0))

\* text.slice(start)
SliceFrom(t, start) == TDrop(t, SliceIndex(TLen(t), start))

RECURSIVE Expand(_)
Expand(t) ==
  IF t = <<>> THEN <<>>
  ELSE [i \in 1..t[1].n |-> t[1].c] \o Expand(Tail(t))

Chars(s) == [i \in 1..Len(s) |-> SubSeq(s, i, i)]

\* text.includes(pat): a run longer than the pattern matches as a run of the
\* pattern's length does, so the search expands runs capped at Len(pat)
Includes(t, pat) ==
  LET L == Len(pat)
      e == Expand([i \in DOMAIN t |-> [c |-> t[i].c, n |-> Min(t[i].n, L)]])
  IN  \E i \in 1..(Len(e) - L + 1) : SubSeq(e, i, i + L - 1) = Chars(pat)

\* name.includes(pat) on a short string
StrIncludes(s, pat) ==
  \E i \in 1..(Len(s) - Len(pat) + 1) : SubSeq(s, i, i + Len(pat) - 1) = pat

\* `${n}` for a non-negative or negative integer
NumStr(n) == Str(ToString(n))

\* ---------------------------------------------------------------------------
\* Data model (SessionMessage, ProcessingStats)
\* ---------------------------------------------------------------------------
\* A part: type, text ("" when absent), tool and name ("" when absent),
\* hasInput (state.input present) and input (JSON.stringify(state.input)).
Part(type, text, tool, name, hasInput, input) ==
  [type |-> type, text |-> text, tool |-> tool, name |-> name,
   hasInput |-> hasInput, input |-> input]

TextPart(text) == Part("text", text, "", "", FALSE, <<>>)
CompactionPart == Part("compaction", <<>>, "", "", FALSE, <<>>)
ToolPart(tool, input) == Part("tool", <<>>, tool, "", TRUE, input)
ToolResultPart(text, name) == Part("tool_result", text, "", name, FALSE, <<>>)

\* A message: info.role ("" when absent), info.summary, parts (hasParts
\* FALSE when the parts array is absent).
Message(role, summary, parts) ==
  [role |-> role, summary |-> summary, hasParts |-> TRUE, parts |-> parts]
MessageWithoutParts(role) ==
  [role |-> role, summary |-> FALSE, hasParts |-> FALSE, parts |-> <<>>]

\* mutant: originalCount is left at 0
InitialStats_NoOriginalCount(n) ==
  [originalCount |-> 0, finalCount |-> n, totalChars |-> 0,
   truncatedResults |-> 0, removedMessages |-> 0,
   compactionDetected |-> FALSE, compactionSliceIndex |-> -1,
   tierDistribution |-> [tier1 |-> 0, tier2 |-> 0, tier3 |-> 0],
   headTailApplied |-> 0]

InitialStats(n) ==
  [originalCount |-> n, finalCount |-> n, totalChars |-> 0,
   truncatedResults |-> 0, removedMessages |-> 0,
   compactionDetected |-> FALSE, compactionSliceIndex |-> -1,
   tierDistribution |-> [tier1 |-> 0, tier2 |-> 0, tier3 |-> 0],
   headTailApplied |-> 0]

\* ---------------------------------------------------------------------------
\* Stage 1: compaction boundary
\* ---------------------------------------------------------------------------
HasCompactionPart(msg) ==
  msg.hasParts /\ \E p \in DOMAIN msg.parts : msg.parts[p].type = "compaction"

IsSummaryAssistant(msg) == msg.role = "assistant" /\ msg.summary = TRUE

RECURSIVE LatestCompaction_Earliest(_, _)
\* mutant: honours the earliest compaction marker at or before index i
LatestCompaction_Earliest(messages, i) ==
  IF i < 0 THEN -1
  ELSE LET earlier == LatestCompaction_Earliest(messages, i - 1)
       IN  IF earlier >= 0 THEN earlier
           ELSE IF HasCompactionPart(messages[i + 1]) THEN i
           ELSE -1

RECURSIVE LatestCompaction(_, _)
\* backward scan from 0-based index i for a message with a compaction part
LatestCompaction(messages, i) ==
  IF i < 0 THEN -1
  ELSE IF HasCompactionPart(messages[i + 1]) THEN i
  ELSE LatestCompaction(messages, i - 1)

RECURSIVE NextSummary_AnyRole(_, _)
\* mutant: a summary flag counts on a message of any role
NextSummary_AnyRole(messages, i) ==
  IF i >= Len(messages) THEN -1
  ELSE IF messages[i + 1].summary = TRUE THEN i
  ELSE NextSummary_AnyRole(messages, i + 1)

RECURSIVE NextSummary(_, _)
\* forward scan from 0-based index i for an assistant summary message
NextSummary(messages, i) ==
  IF i >= Len(messages) THEN -1
  ELSE IF IsSummaryAssistant(messages[i + 1]) THEN i
  ELSE NextSummary(messages, i + 1)

\* mutant: slices at the compaction marker instead of the summary
findCompactionBoundary_AtMarker(messages) ==
  LET compactionIndex == LatestCompaction(messages, Len(messages) - 1)
  IN  IF compactionIndex < 0 THEN -1
      ELSE IF NextSummary(messages, compactionIndex + 1) < 0 THEN -1
      ELSE compactionIndex

\* mutant: looks for the summary from the start of the list
findCompactionBoundary_AnySummary(messages) ==
  LET compactionIndex == LatestCompaction(messages, Len(messages) - 1)
  IN  IF compactionIndex < 0 THEN -1
      ELSE NextSummary(messages, 0)

findCompactionBoundary(messages) ==
  LET compactionIndex == LatestCompaction(messages, Len(messages) - 1)
  IN  IF compactionIndex < 0 THEN -1
      ELSE NextSummary(messages, compactionIndex + 1)

\* ---------------------------------------------------------------------------
\* Stage 2: graduated tool-result truncation
\* ---------------------------------------------------------------------------
\* mutant: Tier 1 holds one result fewer
getToolResultTier_OffByOne(indexFromEnd) ==
  IF indexFromEnd < FORK_TIER1_COUNT - 1 THEN 1
  ELSE IF indexFromEnd < FORK_TIER1_COUNT + FORK_TIER2_COUNT THEN 2
  ELSE 3

\* mutant: Tier 1 holds one result more
getToolResultTier_SixRecent(indexFromEnd) ==
  IF indexFromEnd <= FORK_TIER1_COUNT THEN 1
  ELSE IF indexFromEnd < FORK_TIER1_COUNT + FORK_TIER2_COUNT THEN 2
  ELSE 3

getToolResultTier(indexFromEnd) ==
  IF indexFromEnd < FORK_TIER1_COUNT THEN 1
  ELSE IF indexFromEnd < FORK_TIER1_COUNT + FORK_TIER2_COUNT THEN 2
  ELSE 3

\* mutant: only the tool name selects head+tail
shouldUseHeadTail_NameOnly(toolName, resultText) ==
  /\ toolName # ""
  /\ \E k \in DOMAIN FORK_HEAD_TAIL_KEYWORDS :
       StrIncludes(toolName, FORK_HEAD_TAIL_KEYWORDS[k])

shouldUseHeadTail(toolName, resultText) ==
  \/ /\ toolName # ""
     /\ \E k \in DOMAIN FORK_HEAD_TAIL_KEYWORDS :
          StrIncludes(toolName, FORK_HEAD_TAIL_KEYWORDS[k])
  \/ \E k \in DOMAIN FORK_ERROR_PATTERNS :
          Includes(resultText, FORK_ERROR_PATTERNS[k])

\* Math.floor(limit * ratio)
FloorRatio(limit, ratio) == (limit * ratio[1]) \div ratio[2]

\* mutant: returns the text whatever its length
truncateWithStrategy_Untruncated(text, limit, useHeadTail) == text

\* mutant: the stated count forgets the kept tail
truncateWithStrategy_CountsHeadOnly(text, limit, useHeadTail) ==
  IF TLen(text) <= limit THEN text
  ELSE IF useHeadTail
       THEN LET headSize == FloorRatio(limit, FORK_HEAD_RATIO)
                tailSize == FloorRatio(limit, FORK_TAIL_RATIO)
                truncatedCount == TLen(text) - headSize
                head == Slice(text, 0, headSize)
                tail == SliceFrom(text, -tailSize)
            IN  TCat(head,
                  TCat(Str("\n...[truncated "),
                    TCat(NumStr(truncatedCount),
                      TCat(Str(" chars]...\n"), tail))))
       ELSE TCat(Slice(text, 0, limit),
              TCat(Str("\n...[truncated "),
                TCat(NumStr(TLen(text) - limit), Str(" chars]..."))))

\* mutant: head-only truncation keeps a tail as well
truncateWithStrategy_KeepsTail(text, limit, useHeadTail) ==
  IF TLen(text) <= limit THEN text
  ELSE LET headSize == IF useHeadTail THEN FloorRatio(limit, FORK_HEAD_RATIO)
                       ELSE limit
           tailSize == FloorRatio(limit, FORK_TAIL_RATIO)
           truncatedCount == TLen(text) - headSize - tailSize
       IN  TCat(Slice(text, 0, headSize),
             TCat(Str("\n...[truncated "),
               TCat(NumStr(truncatedCount),
                 TCat(Str(" chars]...\n"), SliceFrom(text, -tailSize)))))

truncateWithStrategy(text, limit, useHeadTail) ==
  IF TLen(text) <= limit THEN text
  ELSE IF useHeadTail
       THEN LET headSize == FloorRatio(limit, FORK_HEAD_RATIO)
                tailSize == FloorRatio(limit, FORK_TAIL_RATIO)
                truncatedCount == TLen(text) - headSize - tailSize
                head == Slice(text, 0, headSize)
                tail == SliceFrom(text, -tailSize)
            IN  TCat(head,
                  TCat(Str("\n...[truncated "),
                    TCat(NumStr(truncatedCount),
                      TCat(Str(" chars]...\n"), tail))))
       ELSE TCat(Slice(text, 0, limit),
              TCat(Str("\n...[truncated "),
                TCat(NumStr(TLen(text) - limit), Str(" chars]..."))))

RECURSIVE CountResultParts(_)
CountResultParts(parts) ==
  IF parts = <<>> THEN 0
  ELSE (IF parts[1].type = "tool_result" THEN 1 ELSE 0)
         + CountResultParts(Tail(parts))

RECURSIVE countToolResults(_)
countToolResults(messages) ==
  IF messages = <<>> THEN 0
  ELSE (IF messages[1].hasParts THEN CountResultParts(messages[1].parts) ELSE 0)
         + countToolResults(Tail(messages))

\* mutant: only a text that is the sentinel itself counts as compacted
isCompactedResult_Exact(text) == text = Str(COMPACTED_SENTINEL)

isCompactedResult(text) == Includes(text, COMPACTED_SENTINEL)

\* mutant: only a tool named exactly as a never-truncate tool is exempt
IsNoTruncationTool_Exact(toolName) ==
  \E k \in DOMAIN FORK_NO_TRUNCATION_TOOLS :
    toolName = FORK_NO_TRUNCATION_TOOLS[k]

\* toolName && FORK_NO_TRUNCATION_TOOLS.some(name => toolName.includes(name))
IsNoTruncationTool(toolName) ==
  /\ toolName # ""
  /\ \E k \in DOMAIN FORK_NO_TRUNCATION_TOOLS :
       StrIncludes(toolName, FORK_NO_TRUNCATION_TOOLS[k])

RECURSIVE PrecedingToolName(_, _)
\* backward scan from 0-based part index i for a part of type "tool"
PrecedingToolName(parts, i) ==
  IF i < 0 THEN ""
  ELSE IF parts[i + 1].type = "tool"
       THEN (IF parts[i + 1].tool # "" THEN parts[i + 1].tool
             ELSE parts[i + 1].name)
       ELSE PrecedingToolName(parts, i - 1)

\* mutant: only the part's own fields are looked at
resolveToolName_OwnNameOnly(parts, toolResultPartIndex) ==
  LET resultPart == parts[toolResultPartIndex + 1]
  IN  IF resultPart.tool # "" THEN resultPart.tool ELSE resultPart.name

\* toolResultPartIndex is 0-based; "" stands for undefined
resolveToolName(parts, toolResultPartIndex) ==
  LET resultPart == parts[toolResultPartIndex + 1]
  IN  IF resultPart.tool # "" THEN resultPart.tool
      ELSE IF resultPart.name # "" THEN resultPart.name
      ELSE PrecedingToolName(parts, toolResultPartIndex - 1)

\* One iteration of the part loop on the part at 0-based index acc.partIdx.
\* acc = [partIdx, toolResultIndex, stats, processedParts], the loop state
ProcessPart(parts, totalToolResults, acc) ==
  LET part == parts[acc.partIdx + 1]
      keep == [acc EXCEPT !.partIdx = @ + 1,
                          !.processedParts = Append(@, part)]
  IN
  IF part.type # "tool_result" \/ part.text = <<>> THEN keep
  ELSE
    LET indexFromEnd == totalToolResults - 1 - acc.toolResultIndex
        counted == [keep EXCEPT !.toolResultIndex = @ + 1]
    IN
    IF isCompactedResult(part.text) THEN counted
    ELSE
      LET toolName == resolveToolName(parts, acc.partIdx)
          tier == getToolResultTier(indexFromEnd)
          tiered ==
            [counted EXCEPT
               !.stats.tierDistribution.tier1 = IF tier = 1 THEN @ + 1 ELSE @,
               !.stats.tierDistribution.tier2 = IF tier = 2 THEN @ + 1 ELSE @,
               !.stats.tierDistribution.tier3 = IF tier = 3 THEN @ + 1 ELSE @]
      IN
      IF tier = 1 THEN tiered
      ELSE IF IsNoTruncationTool(toolName) THEN tiered
      ELSE
        LET limit == IF tier = 2 THEN FORK_TIER2_LIMIT ELSE FORK_TIER3_LIMIT
            useHeadTail == shouldUseHeadTail(toolName, part.text)
            truncatedText == truncateWithStrategy(part.text, limit, useHeadTail)
            changed == truncatedText # part.text
        IN  [partIdx |-> acc.partIdx + 1,
             toolResultIndex |-> acc.toolResultIndex + 1,
             stats |->
               [tiered.stats EXCEPT
                  !.truncatedResults = IF changed THEN @ + 1 ELSE @,
                  !.headTailApplied =
                     IF changed /\ useHeadTail THEN @ + 1 ELSE @],
             processedParts |->
               Append(acc.processedParts, [part EXCEPT !.text = truncatedText])]

RECURSIVE ProcessParts(_, _, _)
\* for (let partIdx = 0; partIdx < msg.parts.length; partIdx++)
ProcessParts(parts, totalToolResults, acc) ==
  IF acc.partIdx >= Len(parts) THEN acc
  ELSE ProcessParts(parts, totalToolResults,
                    ProcessPart(parts, totalToolResults, acc))

\* mutant: a message without parts is left out of the output
ProcessMessage_SkipsPartless(workingMessages, totalToolResults, acc) ==
  LET msg == workingMessages[acc.msgIdx + 1]
  IN
  IF ~msg.hasParts
  THEN [acc EXCEPT !.msgIdx = @ + 1]
  ELSE LET r == ProcessParts(msg.parts, totalToolResults,
                    [partIdx |-> 0,
                     toolResultIndex |-> acc.toolResultIndex,
                     stats |-> acc.stats, processedParts |-> <<>>])
       IN  [msgIdx |-> acc.msgIdx + 1,
            toolResultIndex |-> r.toolResultIndex,
            stats |-> r.stats,
            processedMessages |->
              Append(acc.processedMessages,
                     [msg EXCEPT !.parts = r.processedParts])]

\* One iteration of the message loop on the message at 0-based index
\* acc.msgIdx.  acc = [msgIdx, toolResultIndex, stats, processedMessages]
ProcessMessage(workingMessages, totalToolResults, acc) ==
  LET msg == workingMessages[acc.msgIdx + 1]
  IN
  IF ~msg.hasParts
  THEN [acc EXCEPT !.msgIdx = @ + 1, !.processedMessages = Append(@, msg)]
  ELSE LET r == ProcessParts(msg.parts, totalToolResults,
                    [partIdx |-> 0,
                     toolResultIndex |-> acc.toolResultIndex,
                     stats |-> acc.stats, processedParts |-> <<>>])
       IN  [msgIdx |-> acc.msgIdx + 1,
            toolResultIndex |-> r.toolResultIndex,
            stats |-> r.stats,
            processedMessages |->
              Append(acc.processedMessages,
                     [msg EXCEPT !.parts = r.processedParts])]

RECURSIVE ProcessLoop(_, _, _)
\* for (const msg of workingMessages)
ProcessLoop(workingMessages, totalToolResults, acc) ==
  IF acc.msgIdx >= Len(workingMessages) THEN acc
  ELSE ProcessLoop(workingMessages, totalToolResults,
                   ProcessMessage(workingMessages, totalToolResults, acc))

\* messages.slice(sliceIndex) for 0 <= sliceIndex
SliceMessages(messages, sliceIndex) ==
  SubSeq(messages, sliceIndex + 1, Len(messages))

\* returns [messages, stats]
processMessagesForFork(messages) ==
  LET stats0 == InitialStats(Len(messages))
      sliceIndex == findCompactionBoundary(messages)
      stats1 == IF sliceIndex >= 0
                THEN [stats0 EXCEPT !.compactionDetected = TRUE,
                                    !.compactionSliceIndex = sliceIndex]
                ELSE stats0
      workingMessages == IF sliceIndex >= 0
                         THEN SliceMessages(messages, sliceIndex)
                         ELSE messages
      totalToolResults == countToolResults(workingMessages)
      r == ProcessLoop(workingMessages, totalToolResults,
             [msgIdx |-> 0, toolResultIndex |-> 0, stats |-> stats1,
              processedMessages |-> <<>>])
  IN  [messages |-> r.processedMessages, stats |-> r.stats]

\* ---------------------------------------------------------------------------
\* Stage 3: rendering and character budget
\* ---------------------------------------------------------------------------
\* role.charAt(0).toUpperCase() + role.slice(1) for the roles of the model
Capitalize(role) ==
  CASE role = "system" -> "System"
    [] role = "unknown" -> "Unknown"
    [] role = "tool" -> "Tool"
    [] OTHER -> role

RoleLabel(msg) ==
  LET role == IF msg.role = "" THEN "unknown" ELSE msg.role
  IN  IF role = "user" THEN "User"
      ELSE IF role = "assistant" THEN "Agent"
      ELSE Capitalize(role)

\* the parameter preview of a tool part: the limit is always FORK_PARAMS_TIER3
ParamsPreview(part) ==
  IF ~part.hasInput THEN <<>>
  ELSE LET paramsStr == part.input
           limit == FORK_PARAMS_TIER3
       IN  IF TLen(paramsStr) > limit
           THEN TCat(Str(" "), TCat(Slice(paramsStr, 0, limit), Str("...")))
           ELSE TCat(Str(" "), paramsStr)

\* the lines a part pushes, each preceded by the "\n" of lines.join("\n")
FormatPart(part) ==
  IF part.type = "text" /\ part.text # <<>>
  THEN TCat(Str("\n"), part.text)
  ELSE IF part.type = "tool" /\ part.tool # ""
  THEN TCat(Str("\n[Tool: "),
         TCat(Str(part.tool), TCat(Str("]"), ParamsPreview(part))))
  ELSE IF part.type = "tool_result" /\ part.text # <<>>
  THEN TCat(Str("\n[Tool result]\n"), part.text)
  ELSE <<>>

RECURSIVE FormatParts(_)
FormatParts(parts) ==
  IF parts = <<>> THEN <<>>
  ELSE TCat(FormatPart(parts[1]), FormatParts(Tail(parts)))

formatMessage(msg) ==
  TCat(Str("\n"), TCat(Str(RoleLabel(msg)), TCat(Str(":"),
    IF msg.hasParts THEN FormatParts(msg.parts) ELSE <<>>)))

RECURSIVE FormatAll(_)
\* msgs.map(formatMessage).join("")
FormatAll(msgs) ==
  IF msgs = <<>> THEN <<>>
  ELSE TCat(formatMessage(msgs[1]), FormatAll(Tail(msgs)))

\* mutant: the count leaves out the delimiters
formatWithBudget_CountsBody(msgs) ==
  LET body == FormatAll(msgs)
  IN  [text |-> TCat(Str("<inherited_context>"),
                  TCat(body, Str("\n</inherited_context>"))),
       charCount |-> TLen(body)]

\* returns [text, charCount]
formatWithBudget(msgs) ==
  LET wrapped == TCat(Str("<inherited_context>"),
                   TCat(FormatAll(msgs), Str("\n</inherited_context>")))
  IN  [text |-> wrapped, charCount |-> TLen(wrapped)]

\* mutant: the loop stops at two remaining messages
OverBudget_StopsAtTwo(charCount, count) ==
  charCount > FORK_CHAR_BUDGET /\ count > 2

\* mutant: the loop evicts down to the no-removal threshold
OverBudget_NoRemovalThreshold(charCount, count) ==
  charCount > FORK_CHAR_NO_REMOVAL /\ count > 1

\* mutant: the loop may evict the last message
OverBudget_EvictsLast(charCount, count) ==
  charCount > FORK_CHAR_BUDGET /\ count > 0

\* the condition of the eviction loop
OverBudget(charCount, count) == charCount > FORK_CHAR_BUDGET /\ count > 1

\* the condition of the early return
WithinNoRemoval(charCount) == charCount <= FORK_CHAR_NO_REMOVAL

\* mutant: drops the newest message
DropOldest_Newest(currentMessages) ==
  SubSeq(currentMessages, 1, Len(currentMessages) - 1)

\* mutant: an eviction drops the two oldest messages
DropOldest_Two(currentMessages) == Tail(Tail(currentMessages))

\* currentMessages.slice(1)
DropOldest(currentMessages) == Tail(currentMessages)

RECURSIVE EvictLoop_Recounts(_)
\* mutant: every eviction sets removedMessages to the evictions of this call
EvictLoop_Recounts(st) ==
  IF OverBudget(st.result.charCount, Len(st.currentMessages))
  THEN LET rest == DropOldest(st.currentMessages)
       IN  EvictLoop_Recounts(
             [currentMessages |-> rest,
              result |-> formatWithBudget(rest),
              stats |-> [st.stats EXCEPT !.removedMessages = st.iterations + 1],
              iterations |-> st.iterations + 1])
  ELSE st

RECURSIVE EvictLoop(_)
\* the while loop; st = [currentMessages, result, stats, iterations]
EvictLoop(st) ==
  IF OverBudget(st.result.charCount, Len(st.currentMessages))
  THEN LET rest == DropOldest(st.currentMessages)
       IN  EvictLoop([currentMessages |-> rest,
                      result |-> formatWithBudget(rest),
                      stats |-> [st.stats EXCEPT !.removedMessages = @ + 1],
                      iterations |-> st.iterations + 1])
  ELSE st

\* returns [text, stats, iterations]: the returned string, the stats object
\* after the call and the number of iterations of the eviction loop
formatMessagesAsContext(messages, stats) ==
  IF Len(messages) = 0
  THEN [text |-> <<>>,
        stats |-> [stats EXCEPT !.finalCount = 0, !.totalChars = 0],
        iterations |-> 0]
  ELSE
    LET result == formatWithBudget(messages)
    IN  IF WithinNoRemoval(result.charCount)
        THEN [text |-> result.text,
              stats |-> [stats EXCEPT !.totalChars = result.charCount,
                                      !.finalCount = Len(messages)],
              iterations |-> 0]
        ELSE LET st == EvictLoop([currentMessages |-> messages,
                                  result |-> result, stats |-> stats,
                                  iterations |-> 0])
             IN  [text |-> st.result.text,
                  stats |-> [st.stats EXCEPT
                               !.totalChars = st.result.charCount,
                               !.finalCount = Len(st.currentMessages)],
                  iterations |-> st.iterations]

\* ---------------------------------------------------------------------------
\* Inputs
\* ---------------------------------------------------------------------------
SeqsUpTo(S, n) == UNION {[1..k -> S] : k \in 0..n}

\* messages of a conversation with compaction markers and summaries
UserMsg == Message("user", FALSE, <<TextPart(Str("hello"))>>)
AgentMsg == Message("assistant", FALSE, <<TextPart(Str("hi"))>>)
CompactionMsg == Message("user", FALSE, <<CompactionPart>>)
SummaryMsg == Message("assistant", TRUE, <<TextPart(Str("Summary"))>>)
UserSummaryMsg == Message("user", TRUE, <<TextPart(Str("note"))>>)
BoundaryPool ==
  {UserMsg, AgentMsg, CompactionMsg, SummaryMsg, UserSummaryMsg}

\* messages holding tool results
SmallResult == ToolResultPart(Str("ok"), "read")
EightResultsMsg == Message("assistant", FALSE, [i \in 1..8 |-> SmallResult])
EmptyResultMsg == Message("assistant", FALSE, <<ToolResultPart(<<>>, "read")>>)
\* one result just over the Tier-2 cap, then four small ones
BigThenFourMsg ==
  Message("assistant", FALSE,
    <<ToolResultPart(Rep("x", FORK_TIER2_LIMIT + 1), "read")>>
      \o [i \in 1..4 |-> SmallResult])
BashMsg ==
  Message("assistant", FALSE,
    <<ToolPart("bash", TCat(Str("{"), TCat(Rep("p", 150), Str("}")))),
      ToolResultPart(TCat(Rep("a", 2000), Rep("b", 2000)), "")>>)
ClearedMsg ==
  Message("assistant", FALSE,
    <<ToolResultPart(TCat(Str(COMPACTED_SENTINEL), Rep("x", 3100)), "read")>>)
AskMsg ==
  Message("assistant", FALSE,
    <<ToolPart("mcp_ask_user_questions", Str("{}")),
      ToolResultPart(Rep("q", 4000), "")>>)
ErrorMsg ==
  Message("assistant", FALSE,
    <<ToolResultPart(TCat(Str("Error: "), Rep("y", 600)), "read")>>)

\* a shell result that already has the form of its own Tier-2 head+tail
\* truncation (the output of an earlier truncation, printed again)
RetruncatedMsg ==
  Message("assistant", FALSE,
    <<ToolPart("bash", Str("{}")),
      ToolResultPart(
        TCat(Rep("a", FloorRatio(FORK_TIER2_LIMIT, FORK_HEAD_RATIO)),
          TCat(Str("\n...[truncated 28 chars]...\n"),
            Rep("b", FloorRatio(FORK_TIER2_LIMIT, FORK_TAIL_RATIO)))), "")>>)

ToolPool ==
  {EightResultsMsg, EmptyResultMsg, BigThenFourMsg, BashMsg,
   ClearedMsg, AskMsg, ErrorMsg, RetruncatedMsg}

\* messages whose rendering meets the thresholds of the budget exactly:
\* a user text of n characters renders to n + 7 characters and the
\* delimiters take 40
TinyMsg == Message("user", FALSE, <<TextPart(Str("hi"))>>)
HalfNoRemovalMsg ==
  Message("user", FALSE,
    <<TextPart(Rep("m", (FORK_CHAR_NO_REMOVAL - 40) \div 2 - 7))>>)
HalfBudgetMsg ==
  Message("user", FALSE,
    <<TextPart(Rep("n", (FORK_CHAR_BUDGET - 40) \div 2 - 7))>>)
OversizeMsg ==
  Message("user", FALSE, <<TextPart(Rep("o", FORK_CHAR_BUDGET + 1))>>)
NoPartsMsg == MessageWithoutParts("system")
ToolCallMsg ==
  Message("", FALSE,
    <<ToolPart("read", TCat(Str("{"), TCat(Rep("p", 150), Str("}")))),
      ToolResultPart(Rep("r", 70000), "")>>)

BudgetPool ==
  {TinyMsg, HalfNoRemovalMsg, HalfBudgetMsg, OversizeMsg, NoPartsMsg,
   ToolCallMsg}

\* messages whose tool results get their tool name in different ways
\* a result without a name and without a tool part before it
OrphanResultMsg ==
  Message("assistant", FALSE, <<ToolResultPart(Rep("z", 3100), "")>>)
\* results that carry their own name or tool field after a tool part
OwnNameMsg ==
  Message("assistant", FALSE,
    <<ToolPart("bash", Str("{}")),
      ToolResultPart(Rep("x", 3100), "read"),
      Part("tool_result", Rep("q", 3100), "ask_user_questions", "bash",
           FALSE, <<>>)>>)
\* two tool parts, each followed by its nameless result
NearestToolMsg ==
  Message("assistant", FALSE,
    <<ToolPart("bash", Str("{}")), ToolResultPart(Rep("c", 3100), ""),
      ToolPart("read", Str("{}")), ToolResultPart(Rep("d", 3100), "")>>)
\* a tool part that has a name field instead of a tool field
NamedToolMsg ==
  Message("assistant", FALSE,
    <<Part("tool", <<>>, "", "exec", FALSE, <<>>),
      ToolResultPart(Rep("e", 3100), "")>>)

NamePool ==
  {BashMsg, EightResultsMsg, OrphanResultMsg, OwnNameMsg, NearestToolMsg,
   NamedToolMsg}

\* messages of every kind: markers, summaries, no parts, texts, tool results
\* a text, a tool part, its long result and five later results
MixedPartsMsg ==
  Message("assistant", FALSE,
    <<TextPart(Str("run")), ToolPart("bash", Str("{}")),
      ToolResultPart(TCat(Rep("a", 2000), Rep("b", 2000)), "")>>
      \o [i \in 1..5 |-> SmallResult])

FramePool ==
  {UserMsg, CompactionMsg, SummaryMsg, NoPartsMsg, MixedPartsMsg}

BoundaryInputs == SeqsUpTo(BoundaryPool, MaxBoundaryMessages)
ToolInputs == SeqsUpTo(ToolPool, MaxToolMessages)
NameInputs == SeqsUpTo(NamePool, MaxNameMessages)
FrameInputs == SeqsUpTo(FramePool, MaxFrameMessages)
BudgetInputs == SeqsUpTo(BudgetPool, MaxBudgetMessages)

\* ---------------------------------------------------------------------------
\* State machine: one fork request runs the pipeline over its message list
\* ---------------------------------------------------------------------------
VARIABLES
  messages,           \* the message list handed to processMessagesForFork
  pc,                 \* "input", "processed", "formatted"
  processedMessages,  \* the messages returned by processMessagesForFork
  stats,              \* the ProcessingStats object
  context,            \* the string returned by formatMessagesAsContext
  loopIterations,     \* iterations of the eviction loop in that call
  statsIn,            \* the stats value handed to that call
  formatCalls,        \* calls of formatMessagesAsContext so far
  \* the SSE broadcaster and the streams of GET /v1/events
  subscribers,        \* SSEBroadcaster.subscribers, a set of controllers
  nextController,     \* the number of connections made so far
  closed,             \* the controllers whose enqueue throws
  timers,             \* the controllers with a running heartbeat timer
  accepted,           \* the controllers addSubscriber took in
  firstEvent,         \* per controller, the type of the first event enqueued
  allTasks,           \* the number of tasks the data provider knows
  lastCall,           \* the last SSE operation and what it enqueued
  \* the tasks file and the calls of saveTask / deletePersistedTask
  tasksFile,          \* the content of the tasks file: session ID -> task
  writers,            \* per caller: its operation, step and loaded copy
  \* a task and the calls of setTaskStatus on it
  task,               \* the BackgroundTask
  statusCalls,        \* the number of calls so far
  lastStatusCall      \* the last call and the callbacks it invoked

forkVars == <<messages, pc, processedMessages, stats, context, loopIterations,
              statsIn, formatCalls>>
sseVars == <<subscribers, nextController, closed, timers, accepted,
             firstEvent, allTasks, lastCall>>
storeVars == <<tasksFile, writers>>
taskVars == <<task, statusCalls, lastStatusCall>>

vars == <<forkVars, sseVars, storeVars, taskVars>>

NoCall == [op |-> "none", event |-> "", before |-> {}, added |-> FALSE,
           enqueued |-> <<>>]

\* no connection has been made
SSEInit ==
  /\ subscribers = {}
  /\ nextController = 0
  /\ closed = {}
  /\ timers = {}
  /\ accepted = {}
  /\ firstEvent = <<>>
  /\ allTasks = 0
  /\ lastCall = NoCall

\* no caller of the storage functions
StoreIdle ==
  /\ tasksFile = <<>>
  /\ writers = <<>>

\* a task that was just launched
TaskInit ==
  /\ task = [status |-> "running", completedAt |-> 0, error |-> ""]
  /\ statusCalls = 0
  /\ lastStatusCall = [previous |-> "", status |-> "", effects |-> <<>>,
                       hasPersistFn |-> FALSE, hasEmitFn |-> FALSE]

\* no fork request
ForkIdle ==
  /\ messages = <<>>
  /\ pc = "idle"
  /\ processedMessages = <<>>
  /\ stats = InitialStats(0)
  /\ context = <<>>
  /\ loopIterations = 0
  /\ statsIn = InitialStats(0)
  /\ formatCalls = 0

InitWith(inputs) ==
  /\ messages \in inputs
  /\ pc = "input"
  /\ processedMessages = <<>>
  /\ stats = InitialStats(0)
  /\ context = <<>>
  /\ loopIterations = 0
  /\ statsIn = InitialStats(0)
  /\ formatCalls = 0
  /\ SSEInit /\ StoreIdle /\ TaskInit

Init == InitWith(BoundaryInputs \cup ToolInputs \cup BudgetInputs)

ProcessStep ==
  /\ pc = "input"
  /\ LET r == processMessagesForFork(messages)
     IN  /\ processedMessages' = r.messages
         /\ stats' = r.stats
  /\ pc' = "processed"
  /\ UNCHANGED <<messages, context, loopIterations, statsIn, formatCalls>>
  /\ UNCHANGED <<sseVars, storeVars, taskVars>>

\* formatMessagesAsContext(processedMessages, stats): the stats object is
\* updated in place, so a later call on the same object starts from the
\* values the earlier call left in it
FormatStep ==
  /\ pc \in {"processed", "formatted"}
  /\ formatCalls < MaxFormatCalls
  /\ LET r == formatMessagesAsContext(processedMessages, stats)
     IN  /\ context' = r.text
         /\ stats' = r.stats
         /\ loopIterations' = r.iterations
  /\ statsIn' = stats
  /\ formatCalls' = formatCalls + 1
  /\ pc' = "formatted"
  /\ UNCHANGED <<messages, processedMessages>>
  /\ UNCHANGED <<sseVars, storeVars, taskVars>>

Next == ProcessStep \/ FormatStep

Spec == Init /\ [][Next]_vars

\* conversations with compaction markers and summaries
SpecBoundary == InitWith(BoundaryInputs) /\ [][Next]_vars
\* conversations with tool results
SpecTools == InitWith(ToolInputs) /\ [][Next]_vars
\* conversations around the character budget
SpecBudget == InitWith(BudgetInputs) /\ [][Next]_vars
\* conversations whose tool results are named in different ways
SpecNames == InitWith(NameInputs) /\ [][Next]_vars
\* conversations with messages of every kind
SpecFrame == InitWith(FrameInputs) /\ [][Next]_vars

\* ---------------------------------------------------------------------------
\* SSE: SSEBroadcaster and handleSSERequest (src/server/sse.ts)
\* ---------------------------------------------------------------------------
\* A controller is a number, the rank of its connection.  An event is a
\* record [event, data].  A stream is observed through the type of the first
\* event enqueued on it and through what the last operation enqueued; enqueue
\* throws on the controllers in closedSet.  The data provider is observed
\* through the number of tasks it knows: tasks are numbered 1..allTasks.

Event(eventType, data) == [event |-> eventType, data |-> data]

\* mutant: the capacity test lets one subscriber too many in
addSubscriber_OneMore(subs, controller) ==
  IF Cardinality(subs) > MAX_SSE_SUBSCRIBERS
  THEN [ok |-> FALSE, subscribers |-> subs]
  ELSE [ok |-> TRUE, subscribers |-> subs \cup {controller}]

\* returns [ok, subscribers]
addSubscriber(subs, controller) ==
  IF Cardinality(subs) >= MAX_SSE_SUBSCRIBERS
  THEN [ok |-> FALSE, subscribers |-> subs]
  ELSE [ok |-> TRUE, subscribers |-> subs \cup {controller}]

removeSubscriber(subs, controller) == subs \ {controller}

\* mutant: the loop ends at the first subscriber whose enqueue throws
broadcast_StopsAtFailure(subs, closedSet, eventType, data) ==
  LET failing == subs \cap closedSet
      reached == IF failing = {} THEN subs
                 ELSE {c \in subs : \A f \in failing : c <= f}
  IN  [subscribers |-> subs \ (reached \cap closedSet),
       enqueued |-> [c \in reached \ closedSet |-> <<Event(eventType, data)>>]]

\* returns [subscribers, enqueued]: every subscriber is tried once, in
\* insertion order; one whose enqueue throws is deleted and the loop goes on
broadcast(subs, closedSet, eventType, data) ==
  [subscribers |-> subs \ closedSet,
   enqueued |-> [c \in subs \ closedSet |-> <<Event(eventType, data)>>]]

\* returns [subscribers, enqueued]
sendTo(subs, closedSet, controller, eventType, data) ==
  IF controller \in closedSet
  THEN [subscribers |-> subs \ {controller}, enqueued |-> <<>>]
  ELSE [subscribers |-> subs,
        enqueued |-> (controller :> <<Event(eventType, data)>>)]

\* mutant: the subscriber is registered, the snapshot is not sent
StreamStart_NoSnapshot(subs, closedSet, controller, tasksNow) ==
  LET a == addSubscriber(subs, controller)
  IN  IF ~a.ok
      THEN [subscribers |-> subs, added |-> FALSE,
            enqueued |-> (controller :> <<Event("error", 0)>>)]
      ELSE [subscribers |-> a.subscribers, added |-> TRUE, enqueued |-> <<>>]

\* start(ctrl) of the stream of handleSSERequest, up to the heartbeat timer;
\* tasksNow is what the data provider returns; returns
\* [subscribers, added, enqueued]
StreamStart(subs, closedSet, controller, tasksNow) ==
  LET a == addSubscriber(subs, controller)
  IN  IF ~a.ok
      THEN [subscribers |-> subs, added |-> FALSE,
            enqueued |-> (controller :> <<Event("error", 0)>>)]
      ELSE LET r == sendTo(a.subscribers, closedSet, controller,
                           "snapshot", tasksNow)
           IN  [subscribers |-> r.subscribers, added |-> TRUE,
                enqueued |-> r.enqueued]

\* the types of the first events of the streams after a call enqueued events
\* on some of them; "" is a stream nothing was enqueued on
Enqueue(first, enqueued) ==
  [c \in DOMAIN first |->
     IF first[c] = "" /\ c \in DOMAIN enqueued /\ enqueued[c] # <<>>
     THEN enqueued[c][1].event ELSE first[c]]

\* GET /v1/events: a new stream is made and started; a connection that is
\* turned away gets an error event and its stream is closed
Connect ==
  /\ nextController < MaxConnections
  /\ LET c == nextController + 1
         r == StreamStart(subscribers, closed, c, allTasks)
     IN  /\ nextController' = c
         /\ subscribers' = r.subscribers
         /\ accepted' = IF r.added THEN accepted \cup {c} ELSE accepted
         /\ timers' = IF r.added THEN timers \cup {c} ELSE timers
         /\ closed' = IF r.added THEN closed ELSE closed \cup {c}
         /\ firstEvent' = Enqueue(Append(firstEvent, ""), r.enqueued)
         /\ lastCall' = [op |-> "connect", event |-> "", before |-> subscribers,
                         added |-> r.added, enqueued |-> r.enqueued]
  /\ UNCHANGED <<allTasks, forkVars, storeVars, taskVars>>

\* the manager reports an event of a task: the server's onTaskEvent callback
\* calls broadcaster.broadcast(eventType, { task })
TaskEvent(eventType, taskId) ==
  LET r == broadcast(subscribers, closed, eventType, taskId)
  IN  /\ subscribers' = r.subscribers
      /\ firstEvent' = Enqueue(firstEvent, r.enqueued)
      /\ lastCall' = [op |-> "broadcast", event |-> eventType,
                      before |-> subscribers, added |-> FALSE,
                      enqueued |-> r.enqueued]
      /\ UNCHANGED <<nextController, closed, timers, accepted>>
      /\ UNCHANGED <<forkVars, storeVars, taskVars>>

\* a task is launched
TaskCreated ==
  /\ allTasks < MaxTasks
  /\ allTasks' = allTasks + 1
  /\ TaskEvent("task.created", allTasks + 1)

\* a known task makes progress or ends
TaskChanged ==
  /\ \E eventType \in {"task.updated", "task.completed"} :
       \E taskId \in 1..allTasks : TaskEvent(eventType, taskId)
  /\ UNCHANGED allTasks

\* the heartbeat timer of a connection fires
Heartbeat ==
  /\ \E c \in timers \cap (1..MaxWatched) :
       LET r == sendTo(subscribers, closed, c, "heartbeat", 0)
       IN  /\ subscribers' = r.subscribers
           /\ firstEvent' = Enqueue(firstEvent, r.enqueued)
           /\ lastCall' = [op |-> "heartbeat", event |-> "heartbeat",
                           before |-> subscribers, added |-> FALSE,
                           enqueued |-> r.enqueued]
  /\ UNCHANGED <<nextController, closed, timers, accepted, allTasks>>
  /\ UNCHANGED <<forkVars, storeVars, taskVars>>

\* cancel() of the stream of an accepted connection
Cancel ==
  /\ \E c \in timers \cap (1..MaxWatched) :
       /\ timers' = timers \ {c}
       /\ subscribers' = removeSubscriber(subscribers, c)
       /\ closed' = closed \cup {c}
  /\ lastCall' = [NoCall EXCEPT !.op = "cancel", !.before = subscribers]
  /\ UNCHANGED <<nextController, accepted, firstEvent, allTasks>>
  /\ UNCHANGED <<forkVars, storeVars, taskVars>>

\* the client of a connection goes away: enqueue on its controller throws
\* from now on
Fail ==
  /\ \E c \in (1..Min(nextController, MaxWatched)) \ closed :
       closed' = closed \cup {c}
  /\ lastCall' = [NoCall EXCEPT !.op = "fail", !.before = subscribers]
  /\ UNCHANGED <<subscribers, nextController, timers, accepted, firstEvent,
                 allTasks>>
  /\ UNCHANGED <<forkVars, storeVars, taskVars>>

NextSSE ==
  Connect \/ TaskCreated \/ TaskChanged \/ Heartbeat \/ Cancel \/ Fail

\* the server has started, no connection has been made
InitSSE == ForkIdle /\ SSEInit /\ StoreIdle /\ TaskInit

SpecSSE == InitSSE /\ [][NextSSE]_vars

\* ---------------------------------------------------------------------------
\* Storage: saveTask and deletePersistedTask (read-modify-write of the tasks
\* file)
\* ---------------------------------------------------------------------------
\* The tasks file is a function from session IDs to tasks.  A session ID is
\* a number; a task is 0 when it was in the file from the start and w when
\* call w saved it.  A call is suspended at each await: between loadTasks and
\* saveTasks other calls run.  The write of saveTasks replaces the file as a
\* whole.

SessionIds == 1..MaxSessions

IdleWriter == [op |-> "none", sessionID |-> 0, task |-> 0, pc |-> "idle",
               tasks |-> <<>>]

\* the contents the tasks file can have when the calls start
TasksFiles ==
  {[id \in ids |-> 0] : ids \in SUBSET SessionIds}

StoreInit ==
  /\ tasksFile \in TasksFiles
  /\ writers = [w \in 1..MaxWriters |-> IdleWriter]

\* tasks[sessionID] = task
SetTask(tasks, sessionID, t) ==
  [id \in DOMAIN tasks \cup {sessionID} |->
     IF id = sessionID THEN t ELSE tasks[id]]

\* delete tasks[sessionID]
DeleteTask(tasks, sessionID) ==
  [id \in DOMAIN tasks \ {sessionID} |-> tasks[id]]

\* saveTask(sessionID, task) is called and its loadTasks() returns
SaveTaskLoad(w) ==
  /\ writers[w].pc = "idle"
  /\ \E sessionID \in SessionIds :
       writers' = [writers EXCEPT ![w] =
                     [op |-> "save", sessionID |-> sessionID, task |-> w,
                      pc |-> "loaded", tasks |-> tasksFile]]
  /\ UNCHANGED tasksFile
  /\ UNCHANGED <<forkVars, sseVars, taskVars>>

\* the rest of saveTask: tasks[sessionID] = task; await saveTasks(tasks)
SaveTaskWrite(w) ==
  /\ writers[w].op = "save" /\ writers[w].pc = "loaded"
  /\ tasksFile' = SetTask(writers[w].tasks, writers[w].sessionID,
                          writers[w].task)
  /\ writers' = [writers EXCEPT ![w].pc = "done", ![w].tasks = tasksFile']
  /\ UNCHANGED <<forkVars, sseVars, taskVars>>

\* deletePersistedTask(sessionID) is called and its loadTasks() returns; the
\* call ends here when the session is not in the loaded tasks
DeleteLoad(w) ==
  /\ writers[w].pc = "idle"
  /\ \E sessionID \in SessionIds :
       writers' = [writers EXCEPT ![w] =
                     [op |-> "delete", sessionID |-> sessionID, task |-> 0,
                      pc |-> IF sessionID \in DOMAIN tasksFile
                             THEN "loaded" ELSE "done",
                      tasks |-> tasksFile]]
  /\ UNCHANGED tasksFile
  /\ UNCHANGED <<forkVars, sseVars, taskVars>>

\* the rest of deletePersistedTask: delete tasks[sessionID];
\* await saveTasks(tasks)
DeleteWrite(w) ==
  /\ writers[w].op = "delete" /\ writers[w].pc = "loaded"
  /\ tasksFile' = DeleteTask(writers[w].tasks, writers[w].sessionID)
  /\ writers' = [writers EXCEPT ![w].pc = "done", ![w].tasks = tasksFile']
  /\ UNCHANGED <<forkVars, sseVars, taskVars>>

NextStore ==
  \E w \in 1..MaxWriters :
    SaveTaskLoad(w) \/ SaveTaskWrite(w) \/ DeleteLoad(w) \/ DeleteWrite(w)

InitStore == ForkIdle /\ SSEInit /\ StoreInit /\ TaskInit

SpecStore == InitStore /\ [][NextStore]_vars

\* ---------------------------------------------------------------------------
\* Task status: setTaskStatus (src/helpers.ts)
\* ---------------------------------------------------------------------------
\* A task is [status, completedAt, error]; completedAt is 0 when unset and
\* the time of the call otherwise, times being the ranks of the calls.  The
\* options are [error, persistFn, emitFn], "" being no error and FALSE no
\* callback.  The callbacks invoked are returned in order as effects.

BackgroundTaskStatus ==
  {"running", "completed", "error", "cancelled", "resumed"}

TerminalStatuses == {"completed", "error", "cancelled"}

TerminalEvent(status) ==
  CASE status = "completed" -> "task.completed"
    [] status = "error"     -> "task.error"
    [] status = "cancelled" -> "task.cancelled"

\* mutant: the event is emitted whether or not the status changed
setTaskStatus_IgnoresPrevious(t, status, options, now) ==
  LET t1 == [t EXCEPT !.status = status]
      t2 == IF status \in TerminalStatuses
            THEN [t1 EXCEPT !.completedAt = now] ELSE t1
      t3 == IF options.error # "" THEN [t2 EXCEPT !.error = options.error]
            ELSE t2
      persisted == IF options.persistFn
                   THEN <<[fn |-> "persistFn", eventType |-> "", task |-> t3]>>
                   ELSE <<>>
      emitted == IF options.emitFn /\ status \in TerminalStatuses
                 THEN <<[fn |-> "emitFn", eventType |-> TerminalEvent(status),
                         task |-> t3]>>
                 ELSE <<>>
  IN  [task |-> t3, effects |-> persisted \o emitted]

\* returns [task, effects]
setTaskStatus(t, status, options, now) ==
  LET previousStatus == t.status
      t1 == [t EXCEPT !.status = status]
      t2 == IF status \in TerminalStatuses
            THEN [t1 EXCEPT !.completedAt = now] ELSE t1
      t3 == IF options.error # "" THEN [t2 EXCEPT !.error = options.error]
            ELSE t2
      persisted == IF options.persistFn
                   THEN <<[fn |-> "persistFn", eventType |-> "", task |-> t3]>>
                   ELSE <<>>
      emitted == IF options.emitFn /\ previousStatus # status
                    /\ status \in TerminalStatuses
                 THEN <<[fn |-> "emitFn", eventType |-> TerminalEvent(status),
                         task |-> t3]>>
                 ELSE <<>>
  IN  [task |-> t3, effects |-> persisted \o emitted]

\* the options a caller can pass; no options at all is ["", FALSE, FALSE]
StatusOptions ==
  [error : {"", "boom"}, persistFn : BOOLEAN, emitFn : BOOLEAN]

SetTaskStatus ==
  /\ statusCalls < MaxStatusCalls
  /\ \E status \in BackgroundTaskStatus, options \in StatusOptions :
       LET r == setTaskStatus(task, status, options, statusCalls + 1)
       IN  /\ task' = r.task
           /\ lastStatusCall' = [previous |-> task.status, status |-> status,
                                 effects |-> r.effects,
                                 hasPersistFn |-> options.persistFn,
                                 hasEmitFn |-> options.emitFn]
  /\ statusCalls' = statusCalls + 1
  /\ UNCHANGED <<forkVars, sseVars, storeVars>>

NextTask == SetTaskStatus

InitTask == ForkIdle /\ SSEInit /\ StoreIdle /\ TaskInit

SpecTask == InitTask /\ [][NextTask]_vars

\* ---------------------------------------------------------------------------
\* Properties of the budget enforcer
\* ---------------------------------------------------------------------------
\* the formatted size of the full list handed to formatMessagesAsContext
FullSize == formatWithBudget(processedMessages).charCount

\* the n - k newest messages of the list handed to formatMessagesAsContext
Newest(k) == SubSeq(processedMessages, k + 1, Len(processedMessages))

\* the number of messages the call dropped
Dropped == Len(processedMessages) - stats.finalCount

\* C1: for a non-empty message list the returned string has at most
\* FORK_CHAR_BUDGET characters unless exactly one message remains in it.
C1_BudgetRespected ==
  (pc = "formatted" /\ Len(processedMessages) > 0)
    => (TLen(context) <= FORK_CHAR_BUDGET \/ stats.finalCount = 1)

\* C1 witness: an over-budget list was cut down to several messages that fit
C1_Witness ==
  /\ pc = "formatted"
  /\ FullSize > FORK_CHAR_BUDGET
  /\ stats.finalCount > 1
  /\ TLen(context) <= FORK_CHAR_BUDGET

\* what C2 says of the rendered messages: a contiguous suffix of the input,
\* every eviction was forced by an over-budget size, and the loop went on
\* until the size fits or one message remains
EvictsOldestUntilFit ==
  /\ Dropped \in 0..(Len(processedMessages) - 1)
  /\ context = formatWithBudget(Newest(Dropped)).text
  /\ \A j \in 0..(Dropped - 1) :
       formatWithBudget(Newest(j)).charCount > FORK_CHAR_BUDGET
  /\ (TLen(context) <= FORK_CHAR_BUDGET \/ stats.finalCount = 1)

\* C2 as stated: every input whose full formatted size exceeds
\* FORK_CHAR_BUDGET loses messages from the oldest end only, until the size
\* fits or one message remains, and removedMessages > 0.
C2_Original ==
  (pc = "formatted" /\ FullSize > FORK_CHAR_BUDGET)
    => (EvictsOldestUntilFit /\ stats.removedMessages > 0)

\* C2 amended: as C2, with removedMessages > 0 only claimed for an input of
\* more than one message (a single over-budget message is kept, nothing is
\* removed).
C2_EvictsOldest ==
  (pc = "formatted" /\ FullSize > FORK_CHAR_BUDGET)
    => /\ EvictsOldestUntilFit
       /\ (Len(processedMessages) > 1 => stats.removedMessages > 0)
       /\ (Len(processedMessages) = 1 => stats.removedMessages = 0)

\* C2 witness: an over-budget list of three messages lost some, not all but one
C2_Witness ==
  /\ pc = "formatted"
  /\ FullSize > FORK_CHAR_BUDGET
  /\ Len(processedMessages) >= 3
  /\ stats.removedMessages > 0
  /\ stats.finalCount > 1

\* C3: nothing is evicted unless the formatted size of the full list exceeds
\* FORK_CHAR_BUDGET: up to FORK_CHAR_NO_REMOVAL and between the two
\* thresholds alike removedMessages is 0, finalCount is the input length and
\* the whole list is rendered.
C3_NoEvictionWithinBudget ==
  (pc = "formatted" /\ FullSize <= FORK_CHAR_BUDGET)
    => /\ stats.removedMessages = 0
       /\ stats.finalCount = Len(processedMessages)
       /\ context = IF Len(processedMessages) = 0 THEN <<>>
                    ELSE formatWithBudget(processedMessages).text

\* C3 witness: a list of several messages between the two thresholds
C3_Witness ==
  /\ pc = "formatted"
  /\ Len(processedMessages) >= 2
  /\ FullSize > FORK_CHAR_NO_REMOVAL
  /\ FullSize <= FORK_CHAR_BUDGET
  /\ stats.finalCount = Len(processedMessages)

\* C4: the last remaining message is never evicted: finalCount >= 1 for a
\* non-empty input, and when the newest message alone renders to more than
\* FORK_CHAR_BUDGET characters it is returned whole, totalChars > budget.
C4_LastMessageKept ==
  (pc = "formatted" /\ Len(processedMessages) > 0)
    => /\ stats.finalCount >= 1
       /\ LET alone == formatWithBudget(Newest(Len(processedMessages) - 1))
          IN  alone.charCount > FORK_CHAR_BUDGET
                => /\ stats.finalCount = 1
                   /\ context = alone.text
                   /\ stats.totalChars = alone.charCount
                   /\ stats.totalChars > FORK_CHAR_BUDGET

\* C4 witness: older messages were evicted and the over-budget newest is kept
C4_Witness ==
  /\ pc = "formatted"
  /\ Len(processedMessages) >= 2
  /\ stats.finalCount = 1
  /\ stats.totalChars > FORK_CHAR_BUDGET
  /\ context = formatWithBudget(Newest(Len(processedMessages) - 1)).text

\* ---------------------------------------------------------------------------
\* Properties of the boundary detector
\* ---------------------------------------------------------------------------
\* 0-based indices of the messages holding a compaction-marker part
Markers == {i \in 0..(Len(messages) - 1) : HasCompactionPart(messages[i + 1])}

\* 0-based indices of the assistant messages flagged summary
Summaries == {i \in 0..(Len(messages) - 1) : IsSummaryAssistant(messages[i + 1])}

\* the number of compaction-marker parts of the input
RECURSIVE MarkerParts(_)
MarkerParts(msgs) ==
  IF msgs = <<>> THEN 0
  ELSE Cardinality({p \in DOMAIN msgs[1].parts :
                      msgs[1].parts[p].type = "compaction"})
         + MarkerParts(Tail(msgs))

SetMax(S) == CHOOSE x \in S : \A y \in S : y <= x
SetMin(S) == CHOOSE x \in S : \A y \in S : x <= y

\* a message with the text of its tool-result parts blanked
Blank(msg) ==
  [msg EXCEPT !.parts =
     [p \in DOMAIN @ |->
        IF @[p].type = "tool_result" THEN [@[p] EXCEPT !.text = <<>>]
        ELSE @[p]]]

\* out holds the messages of the input from 0-based index k on, in order,
\* changed in tool-result text at most
IsSuffixFrom(out, k) ==
  /\ Len(out) = Len(messages) - k
  /\ \A i \in 1..Len(out) : Blank(out[i]) = Blank(messages[k + i])

\* C5: with exactly one compaction-marker part, followed later by an
\* assistant summary message, the output starts at that summary message and
\* holds every later message in order and none before it; compactionDetected
\* is true and compactionSliceIndex is that message's index.
C5_SlicesAtSummary ==
  (/\ pc # "input"
   /\ MarkerParts(messages) = 1
   /\ \E m \in Markers : \E j \in Summaries : j > m)
    => LET m == SetMax(Markers)
           j == SetMin({k \in Summaries : k > m})
       IN  /\ IsSuffixFrom(processedMessages, j)
           /\ IsSummaryAssistant(processedMessages[1])
           /\ stats.compactionDetected = TRUE
           /\ stats.compactionSliceIndex = j

\* C5 witness: a message, then the one marker, its summary, a later message
C5_Witness ==
  /\ pc = "processed"
  /\ MarkerParts(messages) = 1
  /\ SetMax(Markers) >= 1
  /\ stats.compactionDetected
  /\ stats.compactionSliceIndex > SetMax(Markers)
  /\ Len(processedMessages) >= 2

\* 0-based indices of the markers that some later summary message follows
Boundaries == {m \in Markers : \E j \in Summaries : j > m}

\* C6 as stated: with several compaction boundaries the output holds no
\* message that precedes the last summary message of the input.
C6_Original ==
  (pc # "input" /\ Cardinality(Boundaries) >= 2)
    => Len(messages) - Len(processedMessages) >= SetMax(Summaries)

\* C6 amended: with several compaction markers only the latest is honoured:
\* when a summary message follows the latest marker, the output holds no
\* message that precedes the first summary message after that marker, and
\* when none follows it, no boundary is honoured and nothing is dropped.
C6_LatestMarkerHonoured ==
  (pc # "input" /\ Cardinality(Markers) >= 2)
    => LET m == SetMax(Markers)
           after == {k \in Summaries : k > m}
       IN  IF after # {}
           THEN /\ IsSuffixFrom(processedMessages, SetMin(after))
                /\ stats.compactionSliceIndex = SetMin(after)
           ELSE /\ IsSuffixFrom(processedMessages, 0)
                /\ stats.compactionDetected = FALSE

\* C6 witness: two boundaries, the output starts at the second summary
C6_Witness ==
  /\ pc = "processed"
  /\ Cardinality(Boundaries) >= 2
  /\ \E j \in Summaries : j < SetMax(Markers)
  /\ stats.compactionDetected
  /\ stats.compactionSliceIndex > SetMax(Markers)
  /\ Len(processedMessages) = Len(messages) - stats.compactionSliceIndex

\* C7: no boundary is reported and the whole sequence is kept when the input
\* has no compaction marker, and when a marker has no assistant summary
\* message after it; a boundary is reported only when a marker is followed
\* later by such a message.
C7_NoBoundaryWithoutSummary ==
  pc # "input"
    => /\ (Markers = {} \/ \E m \in Markers : \A j \in Summaries : j < m + 1)
            => /\ stats.compactionDetected = FALSE
               /\ stats.compactionSliceIndex = -1
               /\ IsSuffixFrom(processedMessages, 0)
       /\ stats.compactionDetected = TRUE => Boundaries # {}

\* C7 witness: a marker with a summary message before it and none after it
C7_Witness ==
  /\ pc = "processed"
  /\ Markers # {}
  /\ Boundaries = {}
  /\ \E j \in Summaries : j < SetMax(Markers)
  /\ stats.compactionDetected = FALSE
  /\ Len(processedMessages) = Len(messages)

\* ---------------------------------------------------------------------------
\* Properties of the tiered truncator
\* ---------------------------------------------------------------------------
\* the sliced sequence stage 2 works on
WorkingMessages ==
  IF stats.compactionDetected
  THEN SliceMessages(messages, stats.compactionSliceIndex)
  ELSE messages

RECURSIVE AllParts(_)
\* the parts of a message list in document order
AllParts(msgs) ==
  IF msgs = <<>> THEN <<>>
  ELSE (IF msgs[1].hasParts THEN msgs[1].parts ELSE <<>>)
         \o AllParts(Tail(msgs))

IsToolResult(part) == part.type = "tool_result"

\* the tool-result parts of a message list in document order
ToolResults(msgs) == SelectSeq(AllParts(msgs), IsToolResult)

\* C8: with the tool-result parts of the sliced sequence numbered in
\* document order, every part whose distance from the end, total - 1 - i, is
\* less than FORK_TIER1_COUNT is returned with its text unchanged.
C8_NewestFiveUnchanged ==
  pc # "input"
    => LET before == ToolResults(WorkingMessages)
           after == ToolResults(processedMessages)
           total == Len(before)
       IN  /\ Len(after) = total
           /\ \A i \in 0..(total - 1) :
                total - 1 - i < FORK_TIER1_COUNT
                  => after[i + 1].text = before[i + 1].text

\* C9: with at most FORK_TIER1_COUNT tool-result parts every tool-result text
\* is returned unchanged, truncatedResults is 0 and tier2 = tier3 = 0.
C9_AtMostFiveUntouched ==
  (pc # "input" /\ countToolResults(WorkingMessages) <= FORK_TIER1_COUNT)
    => /\ ToolResults(processedMessages) = ToolResults(WorkingMessages)
       /\ stats.truncatedResults = 0
       /\ stats.tierDistribution.tier2 = 0
       /\ stats.tierDistribution.tier3 = 0

\* C9 witness: exactly five tool results, the oldest longer than the Tier-2 cap
C9_Witness ==
  /\ pc = "processed"
  /\ countToolResults(messages) = FORK_TIER1_COUNT
  /\ TLen(ToolResults(messages)[1].text) > FORK_TIER2_LIMIT
  /\ ToolResults(processedMessages) = ToolResults(messages)
  /\ stats.tierDistribution.tier1 = FORK_TIER1_COUNT

\* C10: tierDistribution counts every tool-result part of the sliced sequence
\* once, in the tier of its distance from the end: n results give
\* tier1 = min(n, 5), tier2 = min(max(n - 5, 0), 10), tier3 = max(n - 15, 0).
C10_TierDistributionCountsAll ==
  pc # "input"
    => LET n == countToolResults(WorkingMessages)
           t == stats.tierDistribution
       IN  /\ t.tier1 + t.tier2 + t.tier3 = n
           /\ t.tier1 = Min(n, FORK_TIER1_COUNT)
           /\ t.tier2 = Min(Max(n - FORK_TIER1_COUNT, 0), FORK_TIER2_COUNT)
           /\ t.tier3 = Max(n - FORK_TIER1_COUNT - FORK_TIER2_COUNT, 0)

\* ---------------------------------------------------------------------------
\* Properties of the truncation of one tool result
\* ---------------------------------------------------------------------------
IsResultEntry(e) == e.part.type = "tool_result"

RECURSIVE NamedResults(_)
\* the tool-result parts of a message list in document order, each with the
\* tool name resolved for it inside its message
NamedResults(msgs) ==
  IF msgs = <<>> THEN <<>>
  ELSE (IF msgs[1].hasParts
        THEN SelectSeq([p \in DOMAIN msgs[1].parts |->
                          [part |-> msgs[1].parts[p],
                           toolName |-> resolveToolName(msgs[1].parts, p - 1)]],
                       IsResultEntry)
        ELSE <<>>)
         \o NamedResults(Tail(msgs))

\* the tool results handed to stage 2 and their texts after it
ResultsIn == NamedResults(WorkingMessages)
ResultsOut == ToolResults(processedMessages)
TextIn(i) == ResultsIn[i + 1].part.text
TextOut(i) == ResultsOut[i + 1].text

\* the tier of the result at 0-based document position i by its distance
\* from the end
DistanceTier(i) == getToolResultTier(Len(ResultsIn) - 1 - i)

\* the tier under the numbering of processMessagesForFork, which numbers the
\* results that have a text
NumberedTier(i) ==
  getToolResultTier(
    Len(ResultsIn) - 1
      - Cardinality({j \in 0..(i - 1) : TextIn(j) # <<>>}))

TierCap(tier) == IF tier = 2 THEN FORK_TIER2_LIMIT ELSE FORK_TIER3_LIMIT

HasSentinel(text) == Includes(text, "[Old tool result content cleared]")
HasNeverTruncateName(toolName) == StrIncludes(toolName, "ask_user_questions")
PassThrough(i) ==
  HasSentinel(TextIn(i)) \/ HasNeverTruncateName(ResultsIn[i + 1].toolName)

HasHeadTailKeyword(toolName) ==
  \E k \in {"bash", "pty", "exec"} : StrIncludes(toolName, k)
HasErrorPattern(text) ==
  \E k \in {"error", "Error", "ERROR", "failed", "FAILED", "exception",
            "traceback"} : Includes(text, k)
HeadTailCase(i) ==
  HasHeadTailKeyword(ResultsIn[i + 1].toolName) \/ HasErrorPattern(TextIn(i))

\* "\n...[truncated n chars]..."
ElisionMarker(n) ==
  TCat(Str("\n...[truncated "), TCat(NumStr(n), Str(" chars]...")))

\* the first cap characters, then the marker stating length - cap
HeadOnlyForm(text, cap) ==
  TCat(TTake(text, cap), ElisionMarker(TLen(text) - cap))

\* the first floor(0.8 cap) characters, the marker stating the elided count
\* on a line of its own, the last floor(0.2 cap) characters
HeadTailForm(text, cap) ==
  LET kept == (8 * cap) \div 10
      tail == (2 * cap) \div 10
  IN  TCat(TTake(text, kept),
        TCat(ElisionMarker(TLen(text) - kept - tail),
          TCat(Str("\n"), TDrop(text, TLen(text) - tail))))

\* the longest elision marker a text of n characters can get
MaxMarkerLen(n) == 26 + Len(ToString(n))

\* the results at 0-based positions S whose text stage 2 changed
Changed == {i \in 0..(Len(ResultsIn) - 1) : TextOut(i) # TextIn(i)}

\* C11 as stated: the text of every Tier-2 result that is no pass-through
\* exception has at most FORK_TIER2_LIMIT characters after stage 2, that of
\* every such Tier-3 result at most FORK_TIER3_LIMIT.
C11_Original ==
  pc # "input"
    => \A i \in 0..(Len(ResultsIn) - 1) :
         (DistanceTier(i) >= 2 /\ ~PassThrough(i))
           => TLen(TextOut(i)) <= TierCap(DistanceTier(i))

\* C11 amended: the cap bounds the characters kept of the original, and the
\* elision marker comes on top of it: the text of a Tier-2 (Tier-3) result
\* that is no pass-through exception has at most 3000 (500) characters plus
\* the marker, which has at most 26 characters and the digits of the count;
\* a text within its cap stays within it.
C11_CapPlusMarker ==
  pc # "input"
    => \A i \in 0..(Len(ResultsIn) - 1) :
         (DistanceTier(i) >= 2 /\ ~PassThrough(i))
           => LET cap == TierCap(DistanceTier(i))
              IN  /\ TLen(TextOut(i)) <= cap + MaxMarkerLen(TLen(TextIn(i)))
                  /\ TLen(TextIn(i)) <= cap => TLen(TextOut(i)) <= cap

\* C11 witness: a Tier-3 result cut to its cap is longer than the cap by
\* its marker, next to a Tier-2 result that was within its cap
C11_Witness ==
  /\ pc = "processed"
  /\ \E i \in 0..(Len(ResultsIn) - 1) :
       /\ DistanceTier(i) = 3 /\ ~PassThrough(i)
       /\ TLen(TextIn(i)) > FORK_TIER2_LIMIT
       /\ TLen(TextOut(i)) > FORK_TIER3_LIMIT
       /\ TLen(TextOut(i)) < FORK_TIER3_LIMIT + 30
  /\ \E i \in 0..(Len(ResultsIn) - 1) :
       /\ DistanceTier(i) = 2 /\ ~PassThrough(i)
       /\ TextIn(i) # <<>>
       /\ TextOut(i) = TextIn(i)

\* C12 as stated: of exactly 6 tool results the oldest is Tier 2, and when
\* its raw length exceeds FORK_TIER2_LIMIT its output is shorter than its
\* input and contains the truncation marker.
C12_Original ==
  (pc # "input" /\ Len(ResultsIn) = 6)
    => /\ DistanceTier(0) = 2
       /\ TLen(TextIn(0)) > FORK_TIER2_LIMIT
            => /\ TLen(TextOut(0)) < TLen(TextIn(0))
               /\ Includes(TextOut(0), "...[truncated ")

\* C12 amended: of exactly 6 tool results the oldest is Tier 2; when its raw
\* length exceeds 3000 and it is no pass-through exception, its output holds
\* the truncation marker and at least 3000 characters besides, so it is
\* shorter than the input only for a raw length beyond cap plus marker (every
\* length from 3030 on); a pass-through exception is returned as it is.
C12_OldestOfSix ==
  (pc # "input" /\ Len(ResultsIn) = 6)
    => /\ DistanceTier(0) = 2
       /\ NumberedTier(0) = 2
       /\ TLen(TextIn(0)) > FORK_TIER2_LIMIT
            => IF PassThrough(0) THEN TextOut(0) = TextIn(0)
               ELSE /\ Includes(TextOut(0), "...[truncated ")
                    /\ TLen(TextOut(0)) >= FORK_TIER2_LIMIT + 26
                    /\ TLen(TextOut(0))
                         <= FORK_TIER2_LIMIT + MaxMarkerLen(TLen(TextIn(0)))
                    /\ TLen(TextIn(0)) >= FORK_TIER2_LIMIT + 30
                         => TLen(TextOut(0)) < TLen(TextIn(0))

\* C12 witness: six results, the oldest of 4000 characters came back shorter
C12_Witness ==
  /\ pc = "processed"
  /\ Len(ResultsIn) = 6
  /\ ~PassThrough(0)
  /\ TLen(TextIn(0)) >= FORK_TIER2_LIMIT + 30
  /\ TLen(TextOut(0)) < TLen(TextIn(0))
  /\ Includes(TextOut(0), "...[truncated ")

\* C13: a tool result whose text contains the sentinel is returned with
\* identical text whatever its tier and length, and truncatedResults, which
\* counts the results whose text changed, does not count it.
C13_SentinelPassesThrough ==
  pc # "input"
    => /\ Len(ResultsOut) = Len(ResultsIn)
       /\ \A i \in 0..(Len(ResultsIn) - 1) :
            HasSentinel(TextIn(i)) => TextOut(i) = TextIn(i)
       /\ stats.truncatedResults = Cardinality(Changed)

\* C13 witness: a sentinel result beyond Tier 1 and longer than the Tier-2
\* cap came back as it was, next to no truncated result
C13_Witness ==
  /\ pc = "processed"
  /\ \E i \in 0..(Len(ResultsIn) - 1) :
       /\ HasSentinel(TextIn(i))
       /\ NumberedTier(i) >= 2
       /\ TLen(TextIn(i)) > FORK_TIER2_LIMIT
       /\ TextOut(i) = TextIn(i)
  /\ stats.truncatedResults = 0

\* C14: a tool result whose resolved tool name contains "ask_user_questions"
\* (also inside a longer name) is returned with unchanged text in Tier 2 and
\* Tier 3 whatever its length, and is not among the truncatedResults.
C14_NeverTruncateTool ==
  pc # "input"
    => /\ \A i \in 0..(Len(ResultsIn) - 1) :
            HasNeverTruncateName(ResultsIn[i + 1].toolName)
              => /\ TextOut(i) = TextIn(i)
                 /\ i \notin Changed
       /\ stats.truncatedResults
            = Cardinality({i \in Changed :
                ~HasNeverTruncateName(ResultsIn[i + 1].toolName)})

\* C14 witness: a Tier-3 result of mcp_ask_user_questions, longer than every
\* cap, came back as it was
C14_Witness ==
  /\ pc = "processed"
  /\ \E i \in 0..(Len(ResultsIn) - 1) :
       /\ ResultsIn[i + 1].toolName = "mcp_ask_user_questions"
       /\ NumberedTier(i) = 3 /\ DistanceTier(i) = 3
       /\ TLen(TextIn(i)) > FORK_TIER2_LIMIT
       /\ TextOut(i) = TextIn(i)
       /\ stats.tierDistribution.tier3 >= 1

\* the results beyond Tier 1, no pass-through exception, longer than the cap
\* of their tier
OverCap ==
  {i \in 0..(Len(ResultsIn) - 1) :
     /\ NumberedTier(i) >= 2
     /\ ~PassThrough(i)
     /\ TLen(TextIn(i)) > TierCap(NumberedTier(i))}

\* the way every result over its cap is truncated: head+tail exactly in the
\* keyword and error-pattern cases, head-only in every other case
StrategyByCase ==
  \A i \in OverCap :
    LET cap == TierCap(NumberedTier(i))
    IN  /\ HeadTailCase(i) => TextOut(i) = HeadTailForm(TextIn(i), cap)
        /\ ~HeadTailCase(i) => TextOut(i) = HeadOnlyForm(TextIn(i), cap)
        /\ TextOut(i) = HeadTailForm(TextIn(i), cap) => HeadTailCase(i)

\* C15 as stated: a Tier-2 or Tier-3 result over its cap is truncated
\* head+tail if and only if its resolved tool name contains bash, pty or exec
\* or its text contains an error pattern, head-only otherwise, and
\* headTailApplied counts exactly the head+tail cases.
C15_Original ==
  pc # "input"
    => /\ StrategyByCase
       /\ stats.headTailApplied
            = Cardinality({i \in OverCap : HeadTailCase(i)})

\* C15 amended: as C15, with headTailApplied counting the head+tail cases
\* whose truncated text differs from the original text: a text that already
\* is its own head+tail truncation comes back as it is and is not counted.
C15_HeadTailSelection ==
  pc # "input"
    => /\ StrategyByCase
       /\ Changed \subseteq OverCap
       /\ stats.headTailApplied
            = Cardinality({i \in OverCap :
                HeadTailCase(i) /\ TextOut(i) # TextIn(i)})

\* C15 witness: a result of the tool read with an error pattern in its text
\* was truncated head+tail and counted
C15_Witness ==
  /\ pc = "processed"
  /\ \E i \in OverCap :
       /\ ~HasHeadTailKeyword(ResultsIn[i + 1].toolName)
       /\ HasErrorPattern(TextIn(i))
       /\ TextOut(i) = HeadTailForm(TextIn(i), TierCap(NumberedTier(i)))
       /\ TextOut(i) # TextIn(i)
  /\ stats.headTailApplied = 1

\* C16: a head+tail truncated result is the first floor(0.8 cap) characters
\* of the original, the elision marker stating the elided count, and the
\* last floor(0.2 cap) characters of the original; the count is the original
\* length minus the kept head and tail.
C16_HeadTailFormat ==
  pc # "input"
    => \A i \in Changed :
         HeadTailCase(i)
           => LET cap == TierCap(NumberedTier(i))
                  head == (8 * cap) \div 10
                  tail == (2 * cap) \div 10
                  text == TextIn(i)
                  out == TextOut(i)
                  count == TLen(text) - head - tail
                  marker == TCat(ElisionMarker(count), Str("\n"))
              IN  /\ TTake(out, head) = TTake(text, head)
                  /\ TDrop(out, TLen(out) - tail)
                       = TDrop(text, TLen(text) - tail)
                  /\ TTake(TDrop(out, head), TLen(marker)) = marker
                  /\ TLen(out) = head + TLen(marker) + tail
                  /\ out = HeadTailForm(text, cap)

\* C16 witness: the 4000 characters of a shell result in Tier 2 came back as
\* 2400 + marker of 1000 + 600
C16_Witness ==
  /\ pc = "processed"
  /\ \E i \in Changed :
       /\ HasHeadTailKeyword(ResultsIn[i + 1].toolName)
       /\ NumberedTier(i) = 2
       /\ TLen(TextIn(i)) = 4000
       /\ TTake(TextOut(i), 2400) = TTake(TextIn(i), 2400)
       /\ Includes(TextOut(i), "\n...[truncated 1000 chars]...\n")
       /\ TDrop(TextOut(i), TLen(TextOut(i)) - 600) = Rep("b", 600)

\* C17: a truncated result whose tool name has no head+tail keyword and
\* whose text has no error pattern is exactly the first cap characters of the
\* original followed by the elision marker stating original length minus
\* cap: nothing of the original beyond position cap is in the output.
C17_HeadOnlyFormat ==
  pc # "input"
    => \A i \in Changed :
         ~HeadTailCase(i)
           => LET cap == TierCap(NumberedTier(i))
                  text == TextIn(i)
                  out == TextOut(i)
              IN  /\ TTake(out, cap) = TTake(text, cap)
                  /\ TDrop(out, cap) = ElisionMarker(TLen(text) - cap)
                  /\ TLen(out) = cap + TLen(ElisionMarker(TLen(text) - cap))

\* C17 witness: a Tier-3 result of the tool read, 3001 characters long, came
\* back as its first 500 characters and the marker of 2501
C17_Witness ==
  /\ pc = "processed"
  /\ \E i \in Changed :
       /\ ~HeadTailCase(i)
       /\ NumberedTier(i) = 3
       /\ TLen(TextIn(i)) = FORK_TIER2_LIMIT + 1
       /\ TextOut(i)
            = TCat(Rep("x", 500), Str("\n...[truncated 2501 chars]..."))

\* ---------------------------------------------------------------------------
\* Properties of the rendering
\* ---------------------------------------------------------------------------
\* the parameter budget of a tier
ParamsLimit(tier) ==
  IF tier = 1 THEN FORK_PARAMS_TIER1
  ELSE IF tier = 2 THEN FORK_PARAMS_TIER2
  ELSE FORK_PARAMS_TIER3

\* the parameters cut to a budget, with an ellipsis exactly when cut
PreviewWithin(part, limit) ==
  IF ~part.hasInput THEN <<>>
  ELSE IF TLen(part.input) > limit
       THEN TCat(Str(" "), TCat(TTake(part.input, limit), Str("...")))
       ELSE TCat(Str(" "), part.input)

\* the tier of a tool invocation that seen tool results precede: the tier of
\* its result, the next tool result in document order (Tier 3 without one)
InvocationTier(seen, total) ==
  IF seen >= total THEN 3 ELSE getToolResultTier(total - 1 - seen)

RECURSIVE TieredParts(_, _, _, _)
\* the lines of the parts from the 1-based index p on, the parameters of
\* every tool invocation cut to the budget of its tier
TieredParts(parts, p, seen, total) ==
  IF p > Len(parts) THEN <<>>
  ELSE LET part == parts[p]
           line ==
             IF part.type = "tool" /\ part.tool # ""
             THEN TCat(Str("\n[Tool: "),
                    TCat(Str(part.tool), TCat(Str("]"),
                      PreviewWithin(part,
                        ParamsLimit(InvocationTier(seen, total))))))
             ELSE FormatPart(part)
           next == IF part.type = "tool_result" THEN seen + 1 ELSE seen
       IN  TCat(line, TieredParts(parts, p + 1, next, total))

RECURSIVE TieredMessages(_, _, _, _)
TieredMessages(msgs, m, seen, total) ==
  IF m > Len(msgs) THEN <<>>
  ELSE LET msg == msgs[m]
           parts == IF msg.hasParts THEN msg.parts ELSE <<>>
       IN  TCat(TCat(Str("\n"), TCat(Str(RoleLabel(msg)), TCat(Str(":"),
                  TieredParts(parts, 1, seen, total)))),
                TieredMessages(msgs, m + 1, seen + CountResultParts(parts),
                               total))

\* C18: in the formatted context the parameter preview of a tool invocation
\* is cut to the budget of its tier, FORK_PARAMS_TIER1 / TIER2 / TIER3
\* characters, with an ellipsis appended if and only if it was cut.
C18_ParamsPreviewByTier ==
  (pc = "formatted" /\ Len(processedMessages) > 0 /\ Dropped = 0)
    => context
         = TCat(Str("<inherited_context>"),
             TCat(TieredMessages(processedMessages, 1, 0,
                                 countToolResults(processedMessages)),
                  Str("\n</inherited_context>")))

\* C19 as stated: after every call of formatMessagesAsContext, whatever the
\* stats value passed in, removedMessages is the number of messages that call
\* dropped, input count minus finalCount.
C19_Original ==
  pc = "formatted" => stats.removedMessages = Dropped

\* C19 amended: every call adds the number of messages it dropped to the
\* removedMessages of the stats value passed in; the two are equal for a
\* stats value that comes in with removedMessages = 0, as from
\* processMessagesForFork.
C19_RemovedMessagesAccumulates ==
  pc = "formatted"
    => /\ stats.removedMessages = statsIn.removedMessages + Dropped
       /\ Dropped = loopIterations
       /\ formatCalls = 1 => stats.removedMessages = Dropped

\* C19 witness: a second call on the stats of a call that had dropped
\* messages dropped them again
C19_Witness ==
  /\ pc = "formatted"
  /\ formatCalls = 2
  /\ statsIn.removedMessages > 0
  /\ Dropped > 0
  /\ stats.removedMessages = statsIn.removedMessages + Dropped

\* C20: after every call of formatMessagesAsContext totalChars is the length
\* of the returned string and finalCount the number of messages rendered in
\* it: the input count when nothing was evicted, 0 with the empty string for
\* an empty input.
C20_TotalCharsAndFinalCount ==
  pc = "formatted"
    => /\ stats.totalChars = TLen(context)
       /\ stats.finalCount \in 0..Len(processedMessages)
       /\ IF Len(processedMessages) = 0
          THEN context = <<>> /\ stats.finalCount = 0 /\ stats.totalChars = 0
          ELSE context = TCat(Str("<inherited_context>"),
                           TCat(FormatAll(Newest(Dropped)),
                                Str("\n</inherited_context>")))
       /\ loopIterations = 0 => stats.finalCount = Len(processedMessages)

\* C20 witness: of four messages two were evicted and two rendered
C20_Witness ==
  /\ pc = "formatted"
  /\ Len(processedMessages) = 4
  /\ stats.finalCount = 2
  /\ stats.totalChars = TLen(context)
  /\ stats.totalChars > FORK_CHAR_NO_REMOVAL

\* ---------------------------------------------------------------------------
\* Properties of the whole pipeline
\* ---------------------------------------------------------------------------
\* C23: formatMessagesAsContext terminates: for n input messages the eviction
\* loop runs at most n - 1 iterations, each taking one message off the
\* retained list.
C23_LoopBounded ==
  pc = "formatted"
    => /\ loopIterations <= Max(Len(processedMessages) - 1, 0)
       /\ stats.finalCount = Len(processedMessages) - loopIterations
       /\ loopIterations > 0
            => formatWithBudget(Newest(loopIterations - 1)).charCount
                 > FORK_CHAR_BUDGET

\* C23 witness: four messages, the loop ran three times and stopped at one
C23_Witness ==
  /\ pc = "formatted"
  /\ Len(processedMessages) = 4
  /\ loopIterations = 3
  /\ stats.finalCount = 1

\* the part's own tool field, else its own name field
OwnName(part) == IF part.tool # "" THEN part.tool ELSE part.name

\* the name of the result at the 1-based index p as C24 gives it: its own,
\* else that of the nearest tool part before it in its message, else none
ClaimedName(parts, p) ==
  IF OwnName(parts[p]) # "" THEN OwnName(parts[p])
  ELSE LET before == {q \in 1..(p - 1) : parts[q].type = "tool"}
       IN  IF before = {} THEN "" ELSE OwnName(parts[SetMax(before)])

RECURSIVE ClaimedNames(_)
\* the claimed names of the tool results of a message list in document order
ClaimedNames(msgs) ==
  IF msgs = <<>> THEN <<>>
  ELSE (IF msgs[1].hasParts
        THEN LET parts == msgs[1].parts
                 names == [p \in DOMAIN parts |->
                             [part |-> parts[p],
                              toolName |-> ClaimedName(parts, p)]]
             IN  SelectSeq(names, IsResultEntry)
        ELSE <<>>)
         \o ClaimedNames(Tail(msgs))

\* C24: the tool name behind the never-truncate and head+tail checks of a
\* tool result is the part's own tool/name field when present, otherwise the
\* name of the nearest preceding tool part of the same message, never of
\* another message; without either the name is unknown, the result is still
\* processed and no keyword selects head+tail for it.
C24_ToolNameResolution ==
  pc # "input"
    => LET claimed == ClaimedNames(WorkingMessages)
       IN  /\ Len(ResultsOut) = Len(claimed)
           /\ ResultsIn = claimed
           /\ \A i \in 0..(Len(claimed) - 1) :
                LET name == claimed[i + 1].toolName
                    cap == TierCap(NumberedTier(i))
                IN  (/\ NumberedTier(i) >= 2
                     /\ ~HasSentinel(TextIn(i))
                     /\ TLen(TextIn(i)) > cap)
                      => IF HasNeverTruncateName(name)
                         THEN TextOut(i) = TextIn(i)
                         ELSE IF HasHeadTailKeyword(name)
                                   \/ HasErrorPattern(TextIn(i))
                         THEN TextOut(i) = HeadTailForm(TextIn(i), cap)
                         ELSE TextOut(i) = HeadOnlyForm(TextIn(i), cap)

\* C24 witness: after a message with a bash tool part, a nameless result in
\* a message of its own was truncated head-only, the bash result head+tail
C24_Witness ==
  /\ pc = "processed"
  /\ Len(WorkingMessages) >= 2
  /\ WorkingMessages[1] = BashMsg
  /\ WorkingMessages[2] = OrphanResultMsg
  /\ NumberedTier(1) = 2
  /\ TextOut(0) = HeadTailForm(TextIn(0), FORK_TIER2_LIMIT)
  /\ TextOut(1) = HeadOnlyForm(TextIn(1), FORK_TIER2_LIMIT)

\* the 0-based index the output of stage 2 starts at
SlicePoint ==
  IF stats.compactionDetected THEN stats.compactionSliceIndex ELSE 0

\* what C25 says of a result of processMessagesForFork
OnlyResultTextChanged ==
  /\ IsSuffixFrom(processedMessages, SlicePoint)
  /\ \A i \in 1..Len(processedMessages) :
       LET in == messages[SlicePoint + i]
           out == processedMessages[i]
       IN  /\ out.role = in.role /\ out.summary = in.summary
           /\ out.hasParts = in.hasParts
           /\ ~in.hasParts => out = in
           /\ Len(out.parts) = Len(in.parts)
           /\ \A p \in DOMAIN in.parts :
                in.parts[p].type # "tool_result" => out.parts[p] = in.parts[p]

\* C25: processMessagesForFork changes nothing but tool-result text: the
\* input list stays as it was, the output has exactly the messages from the
\* slice point on, in order, with their roles and with every text, compaction
\* and tool part unchanged and in place; a message without parts passes
\* through unchanged.
C25_OnlyResultTextChanges ==
  /\ [](pc # "input" => OnlyResultTextChanged)
  /\ [][messages' = messages]_vars

\* C25 witness: sliced at a summary, with a message without parts and a
\* truncated tool result behind it
C25_Witness ==
  /\ pc = "processed"
  /\ stats.compactionDetected
  /\ \E i \in 1..Len(processedMessages) : ~processedMessages[i].hasParts
  /\ stats.truncatedResults > 0
  /\ OnlyResultTextChanged

\* C29: on every result of processMessagesForFork headTailApplied <=
\* truncatedResults <= tier2 + tier3, removedMessages is 0 and originalCount
\* is the input length.
C29_StatsOrdered ==
  pc = "processed"
    => /\ stats.headTailApplied <= stats.truncatedResults
       /\ stats.truncatedResults
            <= stats.tierDistribution.tier2 + stats.tierDistribution.tier3
       /\ stats.truncatedResults = Cardinality(Changed)
       /\ \A i \in Changed : NumberedTier(i) >= 2
       /\ stats.removedMessages = 0
       /\ stats.originalCount = Len(messages)
       /\ Len(processedMessages) <= Len(messages)

\* C29 witness: of the Tier-2 and Tier-3 results some were truncated, one of
\* them head+tail, others were not
C29_Witness ==
  /\ pc = "processed"
  /\ 0 < stats.headTailApplied
  /\ stats.headTailApplied < stats.truncatedResults
  /\ stats.truncatedResults
       < stats.tierDistribution.tier2 + stats.tierDistribution.tier3
  /\ stats.originalCount = Len(messages)
  /\ stats.removedMessages = 0

\* C30: whenever compactionDetected is true, compactionSliceIndex is at
\* least 1 and less than the input length, the first returned message is an
\* assistant message flagged summary, the output has input length minus
\* compactionSliceIndex messages and none of them holds a compaction part.
C30_DetectedBoundary ==
  (pc # "input" /\ stats.compactionDetected)
    => /\ stats.compactionSliceIndex >= 1
       /\ stats.compactionSliceIndex < Len(messages)
       /\ Len(processedMessages) = Len(messages) - stats.compactionSliceIndex
       /\ processedMessages[1].role = "assistant"
       /\ processedMessages[1].summary = TRUE
       /\ \A i \in 1..Len(processedMessages) :
            ~HasCompactionPart(processedMessages[i])

\* C30 witness: a summary flag on a user message was passed over, the slice
\* is at the assistant summary after it and more messages follow
C30_Witness ==
  /\ pc = "processed"
  /\ stats.compactionDetected
  /\ \E i \in 1..stats.compactionSliceIndex :
       messages[i].summary /\ messages[i].role = "user"
  /\ Len(processedMessages) >= 2
  /\ IsSummaryAssistant(processedMessages[1])

\* ---------------------------------------------------------------------------
\* Properties of the SSE streams
\* ---------------------------------------------------------------------------

\* C21: on every connection accepted as a subscriber the first event enqueued
\* is a snapshot, made of what the data provider returns at that moment, so
\* no task event reaches the stream before its snapshot, whatever the order
\* of connections and task events.
C21_SnapshotFirst ==
  /\ \A c \in accepted : firstEvent[c] = "snapshot"
  /\ (lastCall.op = "connect" /\ lastCall.added) =>
       lastCall.enqueued = (nextController :> <<Event("snapshot", allTasks)>>)

\* a connection accepted after task events reached an earlier connection
C21_Witness ==
  /\ lastCall.op = "connect" /\ lastCall.added
  /\ allTasks >= 1
  /\ Cardinality(accepted) >= 2

\* C22: the broadcaster never holds more than MAX_SSE_SUBSCRIBERS
\* subscribers; a connection made at capacity is turned away and the set of
\* subscribers stays as it was.
C22_AtMostFifty ==
  /\ Cardinality(subscribers) <= MAX_SSE_SUBSCRIBERS
  /\ (lastCall.op = "connect"
        /\ Cardinality(lastCall.before) >= MAX_SSE_SUBSCRIBERS) =>
       /\ ~lastCall.added
       /\ subscribers = lastCall.before

\* a connection turned away by a full broadcaster
C22_Witness ==
  /\ lastCall.op = "connect" /\ ~lastCall.added
  /\ Cardinality(subscribers) = MAX_SSE_SUBSCRIBERS
  /\ nextController \notin subscribers

\* C27: a broadcast enqueues the event once on every subscriber whose
\* enqueue succeeds, on no other stream, and removes the subscribers whose
\* enqueue throws and no other.
C27_BroadcastDelivery ==
  lastCall.op = "broadcast" =>
    /\ DOMAIN lastCall.enqueued = lastCall.before \ closed
    /\ \A c \in DOMAIN lastCall.enqueued :
         /\ Len(lastCall.enqueued[c]) = 1
         /\ lastCall.enqueued[c][1].event = lastCall.event
    /\ subscribers = lastCall.before \ closed

\* a broadcast where a subscriber that fails comes before one that succeeds
C27_Witness ==
  /\ lastCall.op = "broadcast"
  /\ \E f \in lastCall.before \cap closed :
       \E c \in DOMAIN lastCall.enqueued : f < c

\* ---------------------------------------------------------------------------
\* Properties of the tasks file
\* ---------------------------------------------------------------------------

\* the calls made, those that have returned
Calls == {w \in DOMAIN writers : writers[w].op # "none"}

Returned == {w \in Calls : writers[w].pc = "done"}

\* C26: once concurrent calls of saveTask / deletePersistedTask for different
\* session IDs have all returned, the tasks file holds every task one of
\* them saved.
C26_NoLostTask ==
  ( /\ Cardinality(Calls) >= 2
    /\ Returned = Calls
    /\ \A v, w \in Calls : v # w => writers[v].sessionID # writers[w].sessionID )
  => \A w \in Calls :
       writers[w].op = "save" =>
         /\ writers[w].sessionID \in DOMAIN tasksFile
         /\ tasksFile[writers[w].sessionID] = writers[w].task

\* ---------------------------------------------------------------------------
\* Properties of setTaskStatus
\* ---------------------------------------------------------------------------

\* the events the last call emitted, the calls of persistFn it made
Emitted ==
  SelectSeq(lastStatusCall.effects, LAMBDA e : e.fn = "emitFn")

Persisted ==
  SelectSeq(lastStatusCall.effects, LAMBDA e : e.fn = "persistFn")

BecameTerminal ==
  /\ lastStatusCall.status \in TerminalStatuses
  /\ lastStatusCall.previous # lastStatusCall.status

\* the one event of the new status was emitted, last of all effects
EmittedOnce ==
  /\ Len(Emitted) = 1
  /\ Emitted[1].eventType = TerminalEvent(lastStatusCall.status)
  /\ Emitted[1].task = task
  /\ lastStatusCall.effects[Len(lastStatusCall.effects)].fn = "emitFn"

\* C28 as stated: every call that changes the status to a terminal one
\* emits that status's event once, after the task has been persisted, and no
\* other call emits anything.
C28_Original ==
  statusCalls > 0 =>
    IF BecameTerminal
    THEN EmittedOnce /\ Len(Persisted) = 1
    ELSE Emitted = <<>>

\* C28: a call given an emitFn emits the event of a terminal status exactly
\* when it changes the status to it, once, the task carrying the new status,
\* and after persistFn has been called when one is given; a call without
\* emitFn emits nothing; no event is emitted when the status equals the
\* previous one or is running / resumed.
C28_TerminalEvents ==
  statusCalls > 0 =>
    /\ IF BecameTerminal /\ lastStatusCall.hasEmitFn
       THEN EmittedOnce ELSE Emitted = <<>>
    /\ Len(Persisted) = (IF lastStatusCall.hasPersistFn THEN 1 ELSE 0)
    /\ task.status = lastStatusCall.status

\* a resumed task completes, is persisted and reported, after an earlier
\* call had completed it
C28_Witness ==
  /\ statusCalls = MaxStatusCalls
  /\ lastStatusCall.previous = "resumed"
  /\ lastStatusCall.status = "completed"
  /\ lastStatusCall.hasPersistFn /\ lastStatusCall.hasEmitFn
  /\ Len(lastStatusCall.effects) = 2
  /\ EmittedOnce

====
